---- MODULE Spec2Model ----
(***************************************************************************)
(* Model of the lansdowne-dashboard property panel                        *)
(* (src/components/PropertySelector.tsx): the construction of the         *)
(* appreciation chart points and the payback / capital-recovered          *)
(* (breakeven) calculation, with the "Capital Recovered" card label; of   *)
(* the dashboard page that hosts the panel (Home, src/unnamed/part_001):  *)
(* its controls, the filtered rows, the totals, the breakdown and the     *)
(* sorted ledger; of the loading of both components; and of the view the  *)
(* panel selects for the page's selected property.                        *)
(*                                                                         *)
(* Encoding.                                                               *)
(*  - A date string 'YYYY-MM-DD' is an integer day number, counted from a  *)
(*    reference day; '2026-02-26' is MarketEstimateDay.  Every use of a    *)
(*    date in the code is invariant under that shift.                      *)
(*  - getTime() values are counted in quarter days (6 h = 21 600 000 ms),  *)
(*    the largest unit in which a day (4) and the code's year of 365.25    *)
(*    days (1461) are both integers.                                       *)
(*  - A JavaScript number that results from a division is an exact         *)
(*    rational [num, den]; floating-point rounding is not modelled.        *)
(*  - null is the empty sequence, a non-null value x is <<x>>.             *)
(***************************************************************************)
EXTENDS Integers, Sequences, FiniteSets, TLC

\* ------------------------------------------------------------------ bounds
\* Largest number of valuation rows recorded for the selected property.
MaxVals == 4

\* Day numbers a valuation row or a capital transaction may carry.
Days == {0, 99, 101}

\* Values of valuation rows, of purchase_price and of revaluation_estimate.
Values == {100, 101, 116}

\* Values of market_value_est.
EstValues == {101, 112, 116}

\* Total cash invested (deposit + duties + fees + renovation) and equity
\* released, the two terms of netCashInvested.
CashValues == {12, 100, 1477}

EquityValues == {0, 12, 20}

\* ------------------------------------------------------- program constants
\* '2026-02-26', the date of the market-value estimate point.
MarketEstimateDay == 100

\* '2026-02-27', the day the card label compares the breakeven date with.
CutoffDay == 101

\* 24 * 60 * 60 * 1000 ms, in quarter days.
QPerDay == 4

\* 365.25 * 24 * 60 * 60 * 1000 ms, in quarter days.
QPerYear == 1461

\* The extrapolation is accepted below 25 years.
LimitYears == 25

\* The 'beyond' point lies 2 years after the projected breakeven.
BeyondYears == 2

\* --------------------------------------------------------------- helpers
Null == <<>>

Some(x) == <<x>>

\* new Date(dateString).getTime()
getTime(day) == day * QPerDay

\* new Date(ms).toISOString().split('T')[0] for a rational, non-negative
\* instant r: the milliseconds are truncated, the day is the UTC day.
toISODate(r) == r.num \div (r.den * QPerDay)

\* Math.floor in the place of Math.round.
MathRound_Floor(num, den) == num \div den

\* Math.round of the rational num/den (den > 0): floor(x + 1/2).
MathRound(num, den) == (2 * num + den) \div (2 * den)

ChartPoint(d, v, l) == [date |-> d, value |-> v, label |-> l]

\* ------------------------------------------------------------------ state
VARIABLES
    valuations,       \* valuation rows of the selected property, as fetched (.order('date'))
    purchaseTxn,      \* date of the property's first 'purchase' capital transaction, or null
    refinanceTxn,     \* date of the property's first 'refinance' capital transaction, or null
    property,         \* the selected properties_master row (the fields used here)
    chartPoints,      \* known points of the appreciation chart
    breakevenTarget,
    breakevenXIndex,  \* null, or <<[i, num, den]>> for the number i + num/den
    breakevenDate,    \* null, or <<day>>
    projectedPoints,
    cardLabel,        \* text under "Capital Recovered": null, or <<label>>
    divByZero,        \* a division was evaluated with a zero divisor
    rangeError,       \* toISOString() was called on an invalid Date and threw
    firstRunDate,     \* breakevenDate of the run whose 'beyond' point was fed back
    pc

\* The dashboard page (Home) that hosts the panel.
VARIABLES
    data,               \* rows of 'transactions', as stored by fetchData
    allProperties,      \* rows of 'properties_master', as stored by fetchData
    selectedPropertyId, \* '' for "All Properties"
    loading,
    sortConfig,         \* null, or <<[key, direction]>>
    filters,            \* column key -> selected values, in the order of selection
    startDate,          \* '' or a date string
    endDate,
    txnsRequest,        \* the two queries of fetchData: "pending", or the
    propsRequest        \* settled response [data |-> null or <<rows>>]

calcVars == <<valuations, purchaseTxn, refinanceTxn, property, chartPoints,
              breakevenTarget, breakevenXIndex, breakevenDate, projectedPoints,
              cardLabel, divByZero, rangeError, firstRunDate, pc>>

homeVars == <<data, allProperties, selectedPropertyId, loading, sortConfig,
              filters, startDate, endDate, txnsRequest, propsRequest>>

\* The panel's own state (PropertySelector, lines 381-387) while it loads.
VARIABLES
    properties,          \* rows of 'properties_master', as stored by fetchAll
    internalId,
    capitalTransactions,
    scenarios,
    panelValuations,     \* the panel's state 'valuations': every row fetched
    opTransactions,
    panelLoading,        \* the panel's state 'loading'
    panelRequests        \* the five queries of fetchAll, by table

panelVars == <<properties, internalId, capitalTransactions, scenarios,
               panelValuations, opTransactions, panelLoading, panelRequests>>

vars == <<calcVars, homeVars, panelVars>>

\* ------------------------------------------------- chart point construction
\* Array.prototype.sort with (a, b) => a.date.localeCompare(b.date): stable.
RECURSIVE InsertByDate(_, _)
InsertByDate(x, s) ==
    IF s = <<>> THEN <<x>>
    ELSE IF x.date < Head(s).date THEN <<x>> \o s
    ELSE <<Head(s)>> \o InsertByDate(x, Tail(s))

RECURSIVE SortByDate(_)
SortByDate(s) ==
    IF s = <<>> THEN <<>>
    ELSE InsertByDate(s[Len(s)], SortByDate(SubSeq(s, 1, Len(s) - 1)))

\* totalCashInvested - equity_release
netCashInvested(p) == p.totalCashInvested - p.equity_release

\* chartPoints as built from the valuations, or else from the capital
\* transactions, always followed by the market-value estimate unless a
\* valuation is dated on or after it.
BuildChartPoints(vals, purchase, refinance, p) ==
    LET propValuations == SortByDate(vals)
        estimate == ChartPoint(MarketEstimateDay, p.market_value_est, "Market Value Estimate")
    IN  IF Len(propValuations) > 0
        THEN LET pts == [i \in 1..Len(propValuations) |->
                            ChartPoint(propValuations[i].date, propValuations[i].value,
                                       propValuations[i].source)]
                 lastValDate == propValuations[Len(propValuations)].date
             IN  IF MarketEstimateDay > lastValDate THEN Append(pts, estimate) ELSE pts
        ELSE (IF purchase # Null
                THEN <<ChartPoint(purchase[1], p.purchase_price, "Purchase Price")>>
                ELSE <<>>)
             \o (IF refinance # Null
                   THEN <<ChartPoint(refinance[1], p.revaluation_estimate, "Base Case Revaluation")>>
                   ELSE <<>>)
             \o <<estimate>>

\* ------------------------------------------- payback / capital recovered
\* The JavaScript quotient n / d for d # 0, as a rational with den > 0.
Rat(n, d) == IF d < 0 THEN [num |-> 0 - n, den |-> 0 - d] ELSE [num |-> n, den |-> d]

\* breakevenXIndex initialised to 0 in the place of null.
Undetermined_IndexZero ==
    [xIndex |-> Some([i |-> 0, num |-> 0, den |-> 1]), date |-> Null, projected |-> <<>>,
     divByZero |-> FALSE, rangeError |-> FALSE]

\* The initial values of breakevenXIndex, breakevenDate and projectedPoints,
\* with the two observers of arithmetic faults.
Undetermined ==
    [xIndex |-> Null, date |-> Null, projected |-> <<>>,
     divByZero |-> FALSE, rangeError |-> FALSE]

\* The lower end below Target, wherever the upper end is.
Straddles_LowerEndOnly(v0, v1, target) == v0 < target

\* v0 < breakevenTarget && v1 >= breakevenTarget
Straddles(v0, v1, target) == v0 < target /\ v1 >= target

\* The fraction measured from the upper value of the pair:
\* t = (v1 - breakevenTarget) / (v1 - v0).
Interpolate_FromUpperEnd(pts, target, i) ==
    LET v0 == pts[i + 1].value
        v1 == pts[i + 2].value
        d0 == getTime(pts[i + 1].date)
        d1 == getTime(pts[i + 2].date)
    IN  IF v1 - v0 = 0
        THEN [Undetermined EXCEPT !.divByZero = TRUE, !.rangeError = TRUE]
        ELSE LET t == Rat(v1 - target, v1 - v0)
             IN  [Undetermined EXCEPT
                    !.xIndex = Some([i |-> i, num |-> t.num, den |-> t.den]),
                    !.date = Some(toISODate([num |-> d0 * t.den + t.num * (d1 - d0),
                                             den |-> t.den]))]

\* Body of the loop for the pair (i, i + 1), i counted from 0 as in the code.
Interpolate(pts, target, i) ==
    LET v0 == pts[i + 1].value
        v1 == pts[i + 2].value
        d0 == getTime(pts[i + 1].date)
        d1 == getTime(pts[i + 2].date)
    IN  IF v1 - v0 = 0
        THEN \* t is NaN or infinite, and so is the Date: toISOString throws
             [Undetermined EXCEPT !.divByZero = TRUE, !.rangeError = TRUE]
        ELSE LET t == Rat(target - v0, v1 - v0)
             IN  [Undetermined EXCEPT
                    !.xIndex = Some([i |-> i, num |-> t.num, den |-> t.den]),
                    !.date = Some(toISODate([num |-> d0 * t.den + t.num * (d1 - d0),
                                             den |-> t.den]))]

\* The loop without its break: the last straddling pair overwrites the result.
RECURSIVE InterpolationLoop_NoBreak(_, _, _)
InterpolationLoop_NoBreak(pts, target, i) ==
    IF ~(i < Len(pts) - 1) THEN Undetermined
    ELSE LET later == InterpolationLoop_NoBreak(pts, target, i + 1)
         IN  IF later.xIndex # Null \/ later.rangeError THEN later
             ELSE IF Straddles(pts[i + 1].value, pts[i + 2].value, target)
                  THEN Interpolate(pts, target, i)
                  ELSE later

\* for (let i = 0; i < chartPoints.length - 1; i++) { ... break }
RECURSIVE InterpolationLoop(_, _, _)
InterpolationLoop(pts, target, i) ==
    IF ~(i < Len(pts) - 1) THEN Undetermined
    ELSE IF Straddles(pts[i + 1].value, pts[i + 2].value, target)
         THEN Interpolate(pts, target, i)
         ELSE InterpolationLoop(pts, target, i + 1)

\* totalMs >= 0 in the place of totalMs > 0.
PositiveTrend_NonStrict(totalMs, firstVal, lastVal) == totalMs >= 0 /\ lastVal > firstVal

\* totalMs > 0 && lastVal > firstVal
PositiveTrend(totalMs, firstVal, lastVal) == totalMs > 0 /\ lastVal > firstVal

\* msToBreakeven <= 25 years in the place of msToBreakeven < 25 years.
WithinHorizon_Inclusive(msToBreakeven) ==
    /\ msToBreakeven.num > 0
    /\ msToBreakeven.num <= LimitYears * QPerYear * msToBreakeven.den

\* msToBreakeven > 0 && msToBreakeven < 25 * 365.25 * 24 * 60 * 60 * 1000
WithinHorizon(msToBreakeven) ==
    /\ msToBreakeven.num > 0
    /\ msToBreakeven.num < LimitYears * QPerYear * msToBreakeven.den

\* The block entered when the loop left breakevenXIndex null.
Extrapolate(pts, target) ==
    LET firstMs == getTime(pts[1].date)
        lastMs == getTime(pts[Len(pts)].date)
        firstVal == pts[1].value
        lastVal == pts[Len(pts)].value
        totalMs == lastMs - firstMs
    IN  IF ~PositiveTrend(totalMs, firstVal, lastVal) THEN Undetermined
        ELSE IF totalMs = 0 \/ lastVal - firstVal = 0
        THEN \* valuePerMs or msToBreakeven is infinite or NaN; both
             \* comparisons of the next guard cannot hold together
             [Undetermined EXCEPT !.divByZero = TRUE]
        ELSE LET \* valuePerMs = (lastVal - firstVal) / totalMs
                 \* msToBreakeven = (breakevenTarget - lastVal) / valuePerMs
                 msToBreakeven == Rat((target - lastVal) * totalMs, lastVal - firstVal)
                 den == msToBreakeven.den
                 breakevenMs == [num |-> lastMs * den + msToBreakeven.num, den |-> den]
                 beyondMs == [num |-> breakevenMs.num + BeyondYears * QPerYear * den,
                              den |-> den]
                 valuePerMs == Rat(lastVal - firstVal, totalMs)
                 beyondVal == MathRound(target * valuePerMs.den
                                          + valuePerMs.num * BeyondYears * QPerYear,
                                        valuePerMs.den)
             IN  IF ~WithinHorizon(msToBreakeven) THEN Undetermined
                 ELSE [Undetermined EXCEPT
                         !.date = Some(toISODate(breakevenMs)),
                         !.projected =
                            <<ChartPoint(toISODate(breakevenMs), target,
                                         "Capital Recovered (Projected)"),
                              ChartPoint(toISODate(beyondMs), beyondVal, "Projected")>>,
                         !.xIndex = Some([i |-> Len(pts), num |-> 0, den |-> 1])]

\* chartPoints.length > 0 ? chartPoints[0].value : property.purchase_price,
\* plus netCashInvested
BreakevenTarget(pts, nci, purchase_price) ==
    (IF Len(pts) > 0 THEN pts[1].value ELSE purchase_price) + nci

\* netCashInvested >= 0 in the place of netCashInvested > 0.
EntryGuard_NonStrict(pts, nci) == Len(pts) >= 2 /\ nci >= 0

\* The calculation entered whatever netCashInvested is.
EntryGuard_AnyCash(pts, nci) == Len(pts) >= 2

\* The calculation entered on the first render after mounting only.
EntryGuard_FirstRenderOnly(pts, nci) == Len(pts) >= 2 /\ nci > 0 /\ pc = "loaded"

\* chartPoints.length >= 2 && netCashInvested > 0
EntryGuard(pts, nci) == Len(pts) >= 2 /\ nci > 0

\* The whole calculation: breakevenXIndex, breakevenDate, projectedPoints.
Payback(pts, nci, purchase_price) ==
    LET target == BreakevenTarget(pts, nci, purchase_price)
    IN  IF ~EntryGuard(pts, nci) THEN Undetermined
        ELSE LET known == IF pts[1].value >= target
                          THEN [Undetermined EXCEPT
                                  !.xIndex = Some([i |-> 0, num |-> 0, den |-> 1]),
                                  !.date = Some(pts[1].date)]
                          ELSE InterpolationLoop(pts, target, 0)
             IN  IF known.rangeError \/ known.xIndex # Null THEN known
                 ELSE Extrapolate(pts, target)

\* The line under "Capital Recovered", rendered when breakevenDate !== null:
\* new Date(breakevenDate) <= new Date('2026-02-27') ? 'Already achieved' : 'Projected ...'
CardLabel(date) ==
    IF date = Null THEN Null
    ELSE IF date[1] <= CutoffDay THEN Some("Already achieved") ELSE Some("Projected")

\* ===================================================================
\* The dashboard page: Home of src/unnamed/part_001, the version of the
\* page that hosts the panel with selectedId / onSelectId.
\* ===================================================================
\* Encoding.  A transactions row is a function from the column keys to
\* strings; a cell holds the text String(cell) gives, which is all the page
\* reads of a cell besides Number(cell).  A JavaScript number is <<n>>, NaN
\* is <<>>.  Strings are compared through CodeUnitOrder, the order of the
\* < operator on the strings that occur.

\* Largest number of rows the 'transactions' query returns.
MaxRows == 3

\* Largest number of controls that are set at once: selected column values,
\* a start date, an end date, a selected property, a sort column.
MaxActive == 2

NaN == <<>>

Columns == {"Item date", "Property address", "Item description", "Item type",
            "Item amount inc VAT"}

TransactionRow(date, address, description, type, amount) ==
    ("Item date" :> date) @@ ("Property address" :> address) @@
    ("Item description" :> description) @@ ("Item type" :> type) @@
    ("Item amount inc VAT" :> amount)

\* Rows the 'transactions' table may hold.  The last one carries an amount
\* that is not a number.
RowCatalogue ==
    { TransactionRow("2026-01-10", "12 Elm St", "a", "Rent Paid", "500"),
      TransactionRow("2026-02-05", "Flat 2, 12 Elm St", "B", "Fee", "-120"),
      TransactionRow("2026-01-10", "7 Oak Rd", "b", "Utilities", "-30"),
      TransactionRow("2026-02-05", "7 Oak Rd", "a", "Fee", "n/a") }

\* Rows of 'properties_master' (property_id, address), ordered by property_id.
PropertyRows ==
    << [property_id |-> "P1", address |-> "12 Elm St, Leeds"],
       [property_id |-> "P2", address |-> "7 Oak Rd, Kent"] >>

\* Values of the two date inputs.
DateInputs == {"", "2026-01-10", "2026-02-05"}

\* Every string of the model, ascending under the < operator of strings
\* (UTF-16 code units: '-' < digits < upper case < lower case).
CodeUnitOrder ==
    << "", "-120", "-30", "12 Elm St", "12 elm st", "2026-01-10", "2026-02-05",
       "500", "7 Oak Rd", "7 oak rd", "B", "Fee", "Flat 2, 12 Elm St",
       "Rent Paid", "Utilities", "a", "b", "fee", "flat 2, 12 elm st", "n/a",
       "rent paid", "utilities" >>

CodeUnitRank ==
    [s \in {CodeUnitOrder[i] : i \in 1..Len(CodeUnitOrder)} |->
        CHOOSE i \in 1..Len(CodeUnitOrder) : CodeUnitOrder[i] = s]

\* a < b on two strings
StrLess(a, b) == CodeUnitRank[a] < CodeUnitRank[b]

\* String.prototype.toLowerCase
toLowerCase(s) ==
    CASE s = "12 Elm St" -> "12 elm st"
      [] s = "Flat 2, 12 Elm St" -> "flat 2, 12 elm st"
      [] s = "7 Oak Rd" -> "7 oak rd"
      [] s = "B" -> "b"
      [] s = "Fee" -> "fee"
      [] s = "Rent Paid" -> "rent paid"
      [] s = "Utilities" -> "utilities"
      [] OTHER -> s

\* selProp.address.split(',')[0].trim().toLowerCase()
addrKey(address) ==
    CASE address = "12 Elm St, Leeds" -> "12 elm st"
      [] address = "7 Oak Rd, Kent" -> "7 oak rd"

\* String.prototype.includes on the lower-cased addresses and address keys.
includes(s, key) ==
    \/ key = ""
    \/ s = key
    \/ <<s, key>> \in {<<"flat 2, 12 elm st", "12 elm st">>}

\* Number(cell): the cell's number, NaN for a text that is no number.
Number(cell) ==
    CASE cell = "500" -> <<500>>
      [] cell = "-120" -> <<-120>>
      [] cell = "-30" -> <<-30>>
      [] OTHER -> NaN

\* a + b on numbers
Plus(a, b) == IF a = NaN \/ b = NaN THEN NaN ELSE <<a[1] + b[1]>>

\* x || 0 on a number: NaN and 0 are falsy.
OrZero(x) == IF x = NaN THEN <<0>> ELSE x

\* ------------------------------------------------ filtering (lines 157-172)
\* The property filter: rows whose address holds the address key of the
\* selected property; no filter when the id is '' or no property has it.
filterByProperty(rows, props, selId) ==
    LET found == {i \in 1..Len(props) : props[i].property_id = selId}
    IN  IF selId = "" \/ found = {} THEN rows
        ELSE LET selProp == props[CHOOSE i \in found : \A j \in found : i <= j]
                 key == addrKey(selProp.address)
             IN  SelectSeq(rows, LAMBDA row :
                     includes(toLowerCase(row["Property address"]), key))

\* row['Item date'] > startDate in the place of >=.
filterByStart_Strict(rows, start) ==
    IF start = "" THEN rows
    ELSE SelectSeq(rows, LAMBDA row : StrLess(start, row["Item date"]))

\* row['Item date'] >= startDate
filterByStart(rows, start) ==
    IF start = "" THEN rows
    ELSE SelectSeq(rows, LAMBDA row : ~StrLess(row["Item date"], start))

\* The end date not applied.
filterByEnd_Unapplied(rows, end) == rows

\* row['Item date'] <= endDate
filterByEnd(rows, end) ==
    IF end = "" THEN rows
    ELSE SelectSeq(rows, LAMBDA row : ~StrLess(end, row["Item date"]))

\* selected.includes(String(row[key]))
filterByColumn(rows, key, selected) ==
    IF Len(selected) = 0 THEN rows
    ELSE SelectSeq(rows, LAMBDA row : \E i \in 1..Len(selected) : selected[i] = row[key])

\* Object.entries(filters).forEach(...): one pass per column key.
RECURSIVE filterByColumns(_, _, _)
filterByColumns(rows, f, keys) ==
    IF keys = {} THEN rows
    ELSE LET key == CHOOSE k \in keys : TRUE
         IN  filterByColumns(filterByColumn(rows, key, f[key]), f, keys \ {key})

filteredData(rows, props, selId, start, end, f) ==
    filterByColumns(
        filterByEnd(filterByStart(filterByProperty(rows, props, selId), start), end),
        f, Columns)

\* ------------------------------------------------- totals (lines 175-196)
\* rows.reduce((sum, row) => sum + Number(row['Item amount inc VAT']), 0)
RECURSIVE sumAmounts(_)
sumAmounts(rows) ==
    IF rows = <<>> THEN <<0>>
    ELSE Plus(sumAmounts(SubSeq(rows, 1, Len(rows) - 1)),
              Number(rows[Len(rows)]["Item amount inc VAT"]))

\* The income card reduced over every stored row.
totalIncome_Unfiltered(rows) ==
    sumAmounts(SelectSeq(data, LAMBDA row : row["Item type"] = "Rent Paid"))

totalIncome(rows) ==
    sumAmounts(SelectSeq(rows, LAMBDA row : row["Item type"] = "Rent Paid"))

totalExpenses(rows) ==
    sumAmounts(SelectSeq(rows, LAMBDA row : row["Item type"] # "Rent Paid"))

\* The reduce that builds totalsByType, as the entries of the object in the
\* order in which the keys were created.
RECURSIVE totalsByType(_)
totalsByType(rows) ==
    IF rows = <<>> THEN <<>>
    ELSE LET acc == totalsByType(SubSeq(rows, 1, Len(rows) - 1))
             row == rows[Len(rows)]
             type == row["Item type"]
             amount == OrZero(Number(row["Item amount inc VAT"]))
             at == {i \in 1..Len(acc) : acc[i].type = type}
         IN  IF at = {} THEN Append(acc, [type |-> type, total |-> amount])
             ELSE LET i == CHOOSE j \in at : TRUE
                  IN  [acc EXCEPT ![i].total = Plus(acc[i].total, amount)]

\* Array.prototype.sort with (a, b) => b.total - a.total: stable.
RECURSIVE insertByTotal(_, _)
insertByTotal(x, s) ==
    IF s = <<>> THEN <<x>>
    ELSE IF Head(s).total[1] - x.total[1] < 0 THEN <<x>> \o s
    ELSE <<Head(s)>> \o insertByTotal(x, Tail(s))

RECURSIVE sortByTotal(_)
sortByTotal(s) ==
    IF s = <<>> THEN <<>>
    ELSE insertByTotal(s[Len(s)], sortByTotal(SubSeq(s, 1, Len(s) - 1)))

\* The entries left in the order in which the categories were met.
breakdownRows_Unsorted(rows) == totalsByType(rows)

breakdownRows(rows) == sortByTotal(totalsByType(rows))

\* breakdownRows.reduce((s, r) => s + r.total, 0), the footer of the breakdown
RECURSIVE sumTotals(_)
sumTotals(rs) ==
    IF rs = <<>> THEN <<0>>
    ELSE Plus(sumTotals(SubSeq(rs, 1, Len(rs) - 1)), rs[Len(rs)].total)

\* ------------------------------------------------- sorting (lines 198-209)
\* aVal < bVal on two numbers: false when either is NaN
NumLess(a, b) == a # NaN /\ b # NaN /\ a[1] < b[1]

\* The comparator handed to sortedData.sort.
compareRows(a, b, config) ==
    LET key == config.key
        less(x, y) == IF key = "Item amount inc VAT"
                      THEN NumLess(Number(x), Number(y))
                      ELSE StrLess(toLowerCase(x), toLowerCase(y))
    IN  IF less(a[key], b[key]) THEN (IF config.direction = "asc" THEN -1 ELSE 1)
        ELSE IF less(b[key], a[key]) THEN (IF config.direction = "asc" THEN 1 ELSE -1)
        ELSE 0

\* Array.prototype.sort is stable; for a consistent comparator its result is
\* the one produced by an insertion after the last element not greater.
RECURSIVE insertRow(_, _, _)
insertRow(x, s, config) ==
    IF s = <<>> THEN <<x>>
    ELSE IF compareRows(x, Head(s), config) < 0 THEN <<x>> \o s
    ELSE <<Head(s)>> \o insertRow(x, Tail(s), config)

RECURSIVE stableSort(_, _)
stableSort(s, config) ==
    IF s = <<>> THEN <<>>
    ELSE insertRow(s[Len(s)], stableSort(SubSeq(s, 1, Len(s) - 1), config), config)

\* The comparator is a consistent comparator for the rows (ECMA-262,
\* Array.prototype.sort): the orders it induces are transitive.
consistentComparator(rows, config) ==
    LET S == {rows[i] : i \in 1..Len(rows)}
        c(a, b) == compareRows(a, b, config)
    IN  \A a, b, d \in S :
            /\ (c(a, b) = 0 /\ c(b, d) = 0) => c(a, d) = 0
            /\ (c(a, b) < 0 /\ c(b, d) < 0) => c(a, d) < 0
            /\ (c(a, b) > 0 /\ c(b, d) > 0) => c(a, d) > 0

\* Every order of the rows.
permutationsOf(rows) ==
    {[i \in 1..Len(rows) |-> rows[p[i]]] : p \in Permutations(1..Len(rows))}

\* What sortedData may be: the rows as filtered when no column is chosen, the
\* stable sort when the comparator is consistent, and otherwise an order the
\* engine chooses (the sort order is then implementation-defined).
sortedData(rows, config) ==
    IF config = Null THEN {rows}
    ELSE IF consistentComparator(rows, config[1]) THEN {stableSort(rows, config[1])}
    ELSE permutationsOf(rows)

\* ----------------------------------------------------------- the render
\* What one render of the loaded page may compute and show.
HomeViews(rows, props, selId, start, end, f, config) ==
    LET fd == filteredData(rows, props, selId, start, end, f)
        income == totalIncome(fd)
        expenses == totalExpenses(fd)
        breakdown == breakdownRows(fd)
    IN  { [filteredData |-> fd,
           totalIncome |-> income,
           totalExpenses |-> expenses,
           net |-> Plus(income, expenses),
           breakdownRows |-> breakdown,
           breakdownTotal |-> sumTotals(breakdown),
           filteredTotal |-> sumAmounts(fd),
           sortedData |-> sd] : sd \in sortedData(fd, config) }

\* What a render of the page may show in the current state: nothing but the
\* loading indicator (null) while loading, the computed values otherwise.
HomeRender ==
    IF loading THEN {Null}
    ELSE {Some(v) : v \in HomeViews(data, allProperties, selectedPropertyId,
                                    startDate, endDate, filters, sortConfig)}

\* ------------------------------------------------ the page's inputs and state
\* What the 'transactions' query may return: up to MaxRows distinct rows.
TransactionSets ==
    UNION {{s \in [1..n -> RowCatalogue] :
              \A i, j \in 1..n : i < j => s[i] # s[j]} : n \in 0..MaxRows}

Pending == [state |-> "pending", data |-> Null]

\* A settled query: { data } is null on an error, the rows otherwise.
Settled(result) == [state |-> "settled", data |-> result]

noFilters == [key \in Columns |-> <<>>]

\* getUnique(key): the distinct cell texts of a column of data, sorted.
getUnique(key) ==
    LET S == {data[i][key] : i \in 1..Len(data)}
    IN  [i \in 1..Cardinality(S) |->
            CHOOSE s \in S : Cardinality({t \in S : StrLess(t, s)}) = i - 1]

\* Number of controls that are set.
RECURSIVE selectedValues(_, _)
selectedValues(f, keys) ==
    IF keys = {} THEN 0
    ELSE LET key == CHOOSE k \in keys : TRUE
         IN  Len(f[key]) + selectedValues(f, keys \ {key})

activeControls(selId, start, end, f, config) ==
    (IF selId = "" THEN 0 ELSE 1) + (IF start = "" THEN 0 ELSE 1)
    + (IF end = "" THEN 0 ELSE 1) + (IF config = Null THEN 0 ELSE 1)
    + selectedValues(f, Columns)

WithinActive ==
    activeControls(selectedPropertyId', startDate', endDate', filters', sortConfig')
        <= MaxActive

Idle == [state |-> "idle", data |-> Null]

\* Fulfilled as soon as one query has settled.
AllFulfilled_Any(requests) ==
    \E q \in DOMAIN requests : requests[q].state = "settled"

\* Promise.all(requests) has fulfilled: every query has settled.
AllFulfilled(requests) ==
    \A q \in DOMAIN requests : requests[q].state = "settled"

\* The tables fetchAll queries.
PanelQueries == {"properties_master", "capital_transactions", "scenarios",
                 "valuations", "transactions"}

\* Rows a query of fetchAll may return: no property, the first property
\* only or the properties the page's own query returns; for the other
\* tables one row, whose fields the loading of the panel does not read.
PanelRows(q) ==
    IF q = "properties_master" THEN {<<>>, <<PropertyRows[1]>>, PropertyRows}
    ELSE {<<[table |-> q]>>}

\* The panel before the page renders it.
PanelUnmounted ==
    /\ properties = <<>>
    /\ internalId = ""
    /\ capitalTransactions = <<>>
    /\ scenarios = <<>>
    /\ panelValuations = <<>>
    /\ opTransactions = <<>>
    /\ panelLoading = TRUE
    /\ panelRequests = [q \in PanelQueries |-> Idle]

\* The first render of the panel: useState initial values, and the effect
\* that calls fetchAll, which issues the five queries.
MountPanel ==
    /\ panelRequests' = [q \in PanelQueries |-> Pending]
    /\ UNCHANGED <<properties, internalId, capitalTransactions, scenarios,
                   panelValuations, opTransactions, panelLoading>>

\* The panel once fetchAll has stored the rows of every table.
PanelLoaded ==
    /\ properties = PropertyRows
    /\ internalId = "P1"
    /\ capitalTransactions = <<[table |-> "capital_transactions"]>>
    /\ scenarios = <<[table |-> "scenarios"]>>
    /\ panelValuations = <<[table |-> "valuations"]>>
    /\ opTransactions = <<[table |-> "transactions"]>>
    /\ panelLoading = FALSE
    /\ panelRequests =
           [q \in PanelQueries |->
               Settled(Some(IF q = "properties_master" THEN PropertyRows
                            ELSE <<[table |-> q]>>))]

\* The page as mounted: useState initial values, both queries in flight.
HomeMounted ==
    /\ data = <<>>
    /\ allProperties = <<>>
    /\ selectedPropertyId = ""
    /\ loading = TRUE
    /\ sortConfig = Null
    /\ filters = noFilters
    /\ startDate = ""
    /\ endDate = ""
    /\ txnsRequest = Pending
    /\ propsRequest = Pending

\* The loaded page with one property selected, which is when the panel
\* renders the single-property view.
HomeWithPanel ==
    /\ data = <<>>
    /\ allProperties = PropertyRows
    /\ selectedPropertyId = "P1"
    /\ loading = FALSE
    /\ sortConfig = Null
    /\ filters = noFilters
    /\ startDate = ""
    /\ endDate = ""
    /\ txnsRequest = Settled(Some(<<>>))
    /\ propsRequest = Settled(Some(PropertyRows))

\* ------------------------------------------------------------ the inputs
\* Valuation rows arrive ordered by date (.order('date')).
ValuationRows ==
    UNION {{s \in [1..n -> [date : Days, value : Values, source : {"Valuation"}]] :
              \A i \in 1..(n - 1) : s[i].date <= s[i + 1].date} : n \in 0..MaxVals}

OptionalDay == {Null} \cup {Some(d) : d \in Days}

Properties(prices) ==
    [purchase_price : prices, revaluation_estimate : prices,
     market_value_est : EstValues,
     totalCashInvested : CashValues, equity_release : EquityValues]

\* The state once fetchAll has stored the rows and a property is selected,
\* before the first render of the panel.  The capital transactions and the
\* two prices they are charted with are read only when the property has no
\* valuation row, so they vary only there.
Init ==
    /\ \/ /\ valuations \in ValuationRows \ {<<>>}
          /\ purchaseTxn = Null
          /\ refinanceTxn = Null
          /\ property \in Properties({100})
       \/ /\ valuations = <<>>
          /\ purchaseTxn \in OptionalDay
          /\ refinanceTxn \in OptionalDay
          /\ property \in Properties(Values)
    /\ chartPoints = <<>>
    /\ breakevenTarget = 0
    /\ breakevenXIndex = Null
    /\ breakevenDate = Null
    /\ projectedPoints = <<>>
    /\ cardLabel = Null
    /\ divByZero = FALSE
    /\ rangeError = FALSE
    /\ firstRunDate = Null
    /\ pc = "loaded"
    /\ HomeWithPanel
    /\ PanelLoaded

\* ------------------------------------------------------------- the actions
\* The assignments of one run of the payback calculation over pts.
RunPayback(pts) ==
    LET nci == netCashInvested(property)
        r == Payback(pts, nci, property.purchase_price)
    IN  /\ chartPoints' = pts
        /\ breakevenTarget' = BreakevenTarget(pts, nci, property.purchase_price)
        /\ breakevenXIndex' = r.xIndex
        /\ breakevenDate' = r.date
        /\ projectedPoints' = r.projected
        /\ cardLabel' = CardLabel(r.date)
        /\ divByZero' = r.divByZero
        /\ rangeError' = r.rangeError

\* One render of the panel for the selected property.
Render ==
    /\ pc = "loaded"
    /\ RunPayback(BuildChartPoints(valuations, purchaseTxn, refinanceTxn, property))
    /\ firstRunDate' = Null
    /\ pc' = "rendered"
    /\ UNCHANGED <<valuations, purchaseTxn, refinanceTxn, property>>
    /\ UNCHANGED <<homeVars, panelVars>>

\* The calculation run again on the known points followed by the 'beyond'
\* point of an extrapolating run, with the same target.
Refeed ==
    /\ pc = "rendered"
    /\ Len(projectedPoints) = 2
    /\ RunPayback(Append(chartPoints, projectedPoints[2]))
    /\ firstRunDate' = breakevenDate
    /\ pc' = "refed"
    /\ UNCHANGED <<valuations, purchaseTxn, refinanceTxn, property>>
    /\ UNCHANGED <<homeVars, panelVars>>

Next == Render \/ Refeed

Spec == Init /\ [][Next]_vars

\* ===================================================================
\* The dashboard page as a state machine.
\* ===================================================================
\* The panel before it is mounted.
CalcIdle ==
    /\ valuations = <<>>
    /\ purchaseTxn = Null
    /\ refinanceTxn = Null
    /\ property = Null
    /\ chartPoints = <<>>
    /\ breakevenTarget = 0
    /\ breakevenXIndex = Null
    /\ breakevenDate = Null
    /\ projectedPoints = <<>>
    /\ cardLabel = Null
    /\ divByZero = FALSE
    /\ rangeError = FALSE
    /\ firstRunDate = Null
    /\ pc = "unmounted"

HomeInit == HomeMounted /\ PanelUnmounted /\ CalcIdle

\* The 'transactions' query of fetchData settles, with rows or with an error.
SettleTxns ==
    /\ txnsRequest = Pending
    /\ \E result \in {Null} \cup {Some(rows) : rows \in TransactionSets} :
           txnsRequest' = Settled(result)
    /\ UNCHANGED <<data, allProperties, selectedPropertyId, loading, sortConfig,
                   filters, startDate, endDate, propsRequest>>
    /\ UNCHANGED <<calcVars, panelVars>>

\* The 'properties_master' query of fetchData settles.
SettleProps ==
    /\ propsRequest = Pending
    /\ \E result \in {Null, Some(PropertyRows)} : propsRequest' = Settled(result)
    /\ UNCHANGED <<data, allProperties, selectedPropertyId, loading, sortConfig,
                   filters, startDate, endDate, txnsRequest>>
    /\ UNCHANGED <<calcVars, panelVars>>

\* fetchData after its await: Promise.all has fulfilled.
fetchData ==
    /\ loading
    /\ AllFulfilled(<<txnsRequest, propsRequest>>)
    /\ data' = IF txnsRequest.data # Null THEN txnsRequest.data[1] ELSE data
    /\ allProperties' = IF propsRequest.data # Null THEN propsRequest.data[1]
                        ELSE allProperties
    /\ loading' = FALSE
    /\ UNCHANGED <<selectedPropertyId, sortConfig, filters, startDate, endDate,
                   txnsRequest, propsRequest>>
    /\ MountPanel
    /\ UNCHANGED calcVars

\* The handlers below belong to controls of the loaded page.
\* <select> onChange: setSelectedPropertyId(e.target.value)
SelectProperty ==
    /\ ~loading
    /\ \E id \in {""} \cup {allProperties[i].property_id : i \in 1..Len(allProperties)} :
           selectedPropertyId' = id
    /\ UNCHANGED <<data, allProperties, loading, sortConfig, filters, startDate,
                   endDate, txnsRequest, propsRequest>>
    /\ WithinActive
    /\ UNCHANGED <<calcVars, panelVars>>

\* onSelectId of the panel: a click on a row of its portfolio table, which
\* lists the rows of 'properties_master' the panel fetched itself.
onSelectId ==
    /\ ~loading
    /\ selectedPropertyId = ""
    /\ \E i \in 1..Len(PropertyRows) : selectedPropertyId' = PropertyRows[i].property_id
    /\ UNCHANGED <<data, allProperties, loading, sortConfig, filters, startDate,
                   endDate, txnsRequest, propsRequest>>
    /\ WithinActive
    /\ UNCHANGED <<calcVars, panelVars>>

\* <input type="date"> onChange: setStartDate(e.target.value)
SetStartDate ==
    /\ ~loading
    /\ \E d \in DateInputs : startDate' = d
    /\ UNCHANGED <<data, allProperties, selectedPropertyId, loading, sortConfig,
                   filters, endDate, txnsRequest, propsRequest>>
    /\ WithinActive
    /\ UNCHANGED <<calcVars, panelVars>>

SetEndDate ==
    /\ ~loading
    /\ \E d \in DateInputs : endDate' = d
    /\ UNCHANGED <<data, allProperties, selectedPropertyId, loading, sortConfig,
                   filters, startDate, txnsRequest, propsRequest>>
    /\ WithinActive
    /\ UNCHANGED <<calcVars, panelVars>>

\* A button that is rendered when any control is set and resets them all.
ClearAll_EveryControl ==
    /\ ~loading
    /\ \/ selectedPropertyId # "" \/ startDate # "" \/ endDate # ""
       \/ filters # noFilters \/ sortConfig # Null
    /\ selectedPropertyId' = ""
    /\ startDate' = ""
    /\ endDate' = ""
    /\ filters' = noFilters
    /\ sortConfig' = Null
    /\ UNCHANGED <<data, allProperties, loading, txnsRequest, propsRequest>>
    /\ UNCHANGED <<calcVars, panelVars>>

\* The "Clear all" button, rendered when a property or a date is set.
ClearAll ==
    /\ ~loading
    /\ selectedPropertyId # "" \/ startDate # "" \/ endDate # ""
    /\ selectedPropertyId' = ""
    /\ startDate' = ""
    /\ endDate' = ""
    /\ UNCHANGED <<data, allProperties, loading, sortConfig, filters,
                   txnsRequest, propsRequest>>
    /\ UNCHANGED <<calcVars, panelVars>>

\* The value appended whether it is selected or not.
toggledValues_AppendOnly(safe, val) == Append(safe, val)

\* safe.includes(val) ? safe.filter(v => v !== val) : [...safe, val]
toggledValues(safe, val) ==
    IF \E i \in 1..Len(safe) : safe[i] = val
    THEN SelectSeq(safe, LAMBDA v : v # val)
    ELSE Append(safe, val)

\* A checkbox of a column's DropdownFilter: toggleValue(val), whose onChange
\* is handleFilterChange(key, values).
toggleValue ==
    /\ ~loading
    /\ \E key \in Columns :
         \E val \in {getUnique(key)[n] : n \in 1..Len(getUnique(key))} :
           filters' = [filters EXCEPT ![key] = toggledValues(filters[key], val)]
    /\ UNCHANGED <<data, allProperties, selectedPropertyId, loading, sortConfig,
                   startDate, endDate, txnsRequest, propsRequest>>
    /\ WithinActive
    /\ UNCHANGED <<calcVars, panelVars>>

\* A header click that cycles ascending, descending, no sort.
toggleSort_Cycle ==
    /\ ~loading
    /\ \E key \in Columns :
           sortConfig' =
               IF sortConfig # Null /\ sortConfig[1].key = key
               THEN IF sortConfig[1].direction = "asc"
                    THEN Some([key |-> key, direction |-> "desc"])
                    ELSE Null
               ELSE Some([key |-> key, direction |-> "asc"])
    /\ UNCHANGED <<data, allProperties, selectedPropertyId, loading, filters,
                   startDate, endDate, txnsRequest, propsRequest>>
    /\ WithinActive
    /\ UNCHANGED <<calcVars, panelVars>>

\* A header click that sorts the stored rows themselves: data.sort(...).
toggleSort_InPlace ==
    /\ ~loading
    /\ \E key \in Columns :
           /\ sortConfig' =
                  IF sortConfig # Null /\ sortConfig[1].key = key
                  THEN Some([key |-> key,
                             direction |-> IF sortConfig[1].direction = "asc"
                                           THEN "desc" ELSE "asc"])
                  ELSE Some([key |-> key, direction |-> "asc"])
           /\ data' \in sortedData(data, Some([key |-> key, direction |-> "asc"]))
    /\ UNCHANGED <<allProperties, selectedPropertyId, loading, filters,
                   startDate, endDate, txnsRequest, propsRequest>>
    /\ WithinActive
    /\ UNCHANGED <<calcVars, panelVars>>

\* A click on a column header of the ledger.
toggleSort ==
    /\ ~loading
    /\ \E key \in Columns :
           sortConfig' =
               IF sortConfig # Null /\ sortConfig[1].key = key
               THEN Some([key |-> key,
                          direction |-> IF sortConfig[1].direction = "asc"
                                        THEN "desc" ELSE "asc"])
               ELSE Some([key |-> key, direction |-> "asc"])
    /\ UNCHANGED <<data, allProperties, selectedPropertyId, loading, filters,
                   startDate, endDate, txnsRequest, propsRequest>>
    /\ WithinActive
    /\ UNCHANGED <<calcVars, panelVars>>

HomeNext ==
    \/ SettleTxns \/ SettleProps \/ fetchData
    \/ SelectProperty \/ onSelectId \/ SetStartDate \/ SetEndDate \/ ClearAll
    \/ toggleValue \/ toggleSort

HomeSpec == HomeInit /\ [][HomeNext]_vars

\* The page with the ledger left unsorted: the loading and the controls that
\* the filtered rows, the totals and the breakdown depend on.
FilterNext ==
    \/ SettleTxns \/ SettleProps \/ fetchData
    \/ SelectProperty \/ onSelectId \/ SetStartDate \/ SetEndDate \/ ClearAll
    \/ toggleValue

FilterSpec == HomeInit /\ [][FilterNext]_vars

\* The loaded page: the state fetchData leaves when both queries delivered
\* rows, MaxRows of them from 'transactions', and every control of the page.
LedgerInit ==
    /\ data \in {rows \in TransactionSets : Len(rows) = MaxRows}
    /\ allProperties = PropertyRows
    /\ selectedPropertyId = ""
    /\ loading = FALSE
    /\ sortConfig = Null
    /\ filters = noFilters
    /\ startDate = ""
    /\ endDate = ""
    /\ txnsRequest = Settled(Some(data))
    /\ propsRequest = Settled(Some(PropertyRows))
    /\ properties = <<>>
    /\ internalId = ""
    /\ capitalTransactions = <<>>
    /\ scenarios = <<>>
    /\ panelValuations = <<>>
    /\ opTransactions = <<>>
    /\ panelLoading = TRUE
    /\ panelRequests = [q \in PanelQueries |-> Pending]
    /\ CalcIdle

LedgerNext ==
    \/ SelectProperty \/ onSelectId \/ SetStartDate \/ SetEndDate \/ ClearAll
    \/ toggleValue \/ toggleSort

LedgerSpec == LedgerInit /\ [][LedgerNext]_vars

\* ===================================================================
\* The panel rendered again.  React calls the component function on every
\* state change of the page or of the panel, and may call it at any other
\* time; each call builds chartPoints anew (let chartPoints = []) from the
\* stored rows and runs the calculation on them.
\* ===================================================================
\* A property charted from its capital transactions, which is where the
\* purchase price and the dates of the known points vary as well.
RerenderInit ==
    /\ Init
    /\ valuations = <<>>
    /\ property.revaluation_estimate = 100

\* A later call of the component function while the property of the first
\* render is the selected one.
Rerender ==
    /\ pc \in {"rendered", "refed", "rerendered"}
    /\ selectedPropertyId = "P1"
    /\ RunPayback(BuildChartPoints(valuations, purchaseTxn, refinanceTxn, property))
    /\ firstRunDate' = Null
    /\ pc' = "rerendered"
    /\ UNCHANGED <<valuations, purchaseTxn, refinanceTxn, property>>
    /\ UNCHANGED <<homeVars, panelVars>>

RerenderNext ==
    \/ Render \/ Refeed \/ Rerender
    \/ SelectProperty \/ SetStartDate \/ ClearAll \/ toggleSort

RerenderSpec == RerenderInit /\ [][RerenderNext]_vars

\* ===================================================================
\* The loading of the page and of the panel it renders once loaded.
\* ===================================================================
\* A query of fetchAll settles, with rows or with an error.
SettlePanelQuery ==
    /\ \E q \in PanelQueries :
          /\ panelRequests[q] = Pending
          /\ \E result \in {Null} \cup {Some(rows) : rows \in PanelRows(q)} :
                 panelRequests' = [panelRequests EXCEPT ![q] = Settled(result)]
    /\ UNCHANGED <<properties, internalId, capitalTransactions, scenarios,
                   panelValuations, opTransactions, panelLoading>>
    /\ UNCHANGED <<calcVars, homeVars>>

\* Every table ignored as soon as one query has failed.
fetchAllStores_AllOrNothing(requests, current) ==
    IF \E q \in PanelQueries : requests[q].data = Null THEN current
    ELSE [q \in PanelQueries |-> requests[q].data[1]]

\* What fetchAll stores per table: if (props && props.length > 0) for the
\* properties, if (rows) for the other tables; the state is kept otherwise.
fetchAllStores(requests, current) ==
    [q \in PanelQueries |->
        IF requests[q].data = Null THEN current[q]
        ELSE IF q = "properties_master" /\ Len(requests[q].data[1]) = 0 THEN current[q]
        ELSE requests[q].data[1]]

\* The props the page renders the panel with:
\* selectedId={selectedPropertyId} onSelectId={setSelectedPropertyId}.
\* A prop is null when it is not passed.
PanelProps ==
    [selectedId |-> Some(selectedPropertyId),
     onSelectId |-> Some("setSelectedPropertyId")]

\* No parent is ever taken to manage the selection.
hasParent_Never(props) == FALSE

\* hasParent = onSelectId !== undefined
hasParent(props) == props.onSelectId # Null

\* The internal id, once there is one, preferred to the external id.
selectedId_InternalFirst(props, internal) ==
    IF internal # "" THEN internal
    ELSE IF props.selectedId # Null THEN props.selectedId[1] ELSE internal

\* selectedId = (externalId && externalId !== '') ? externalId : internalId
selectedId(props, internal) ==
    IF props.selectedId # Null /\ props.selectedId[1] # ""
    THEN props.selectedId[1] ELSE internal

\* showAll = hasParent && (!externalId || externalId === '')
showAll(props) ==
    hasParent(props) /\ (props.selectedId = Null \/ props.selectedId[1] = "")

\* properties.find(p => p.property_id === id): the first match, or null
find(rows, id) ==
    LET matches == {i \in 1..Len(rows) : rows[i].property_id = id}
    IN  IF matches = {} THEN Null
        ELSE Some(rows[CHOOSE i \in matches : \A j \in matches : i <= j])

\* Which view a render of the panel returns, with the property it shows and
\* whether the internal picker is part of it.
PanelView(props) ==
    IF panelLoading
    THEN [view |-> "loading", property |-> Null, picker |-> FALSE]
    ELSE IF showAll(props) /\ Len(properties) > 0
    THEN [view |-> "aggregate", property |-> Null, picker |-> FALSE]
    ELSE LET found == find(properties, selectedId(props, internalId))
         IN  IF found = Null
             THEN [view |-> "nothing", property |-> Null, picker |-> FALSE]
             ELSE [view |-> "property", property |-> found,
                   picker |-> ~hasParent(props)]

\* What a render of the panel shows: nothing but its loading indicator
\* (null) while loading, views of the stored rows otherwise.
PanelRender ==
    IF panelLoading THEN Null
    ELSE Some([properties |-> properties,
               selectedId |-> selectedId(PanelProps, internalId),
               capitalTransactions |-> capitalTransactions, scenarios |-> scenarios,
               valuations |-> panelValuations, opTransactions |-> opTransactions])

\* fetchAll after its await: Promise.all has fulfilled.
fetchAll ==
    /\ panelLoading
    /\ AllFulfilled(panelRequests)
    /\ LET current == [q \in PanelQueries |->
                          CASE q = "properties_master" -> properties
                            [] q = "capital_transactions" -> capitalTransactions
                            [] q = "scenarios" -> scenarios
                            [] q = "valuations" -> panelValuations
                            [] q = "transactions" -> opTransactions]
           stored == fetchAllStores(panelRequests, current)
           props == panelRequests["properties_master"].data
       IN  /\ properties' = stored["properties_master"]
           /\ internalId' = IF props # Null /\ Len(props[1]) > 0
                             THEN props[1][1].property_id ELSE internalId
           /\ capitalTransactions' = stored["capital_transactions"]
           /\ scenarios' = stored["scenarios"]
           /\ panelValuations' = stored["valuations"]
           /\ opTransactions' = stored["transactions"]
    /\ panelLoading' = FALSE
    /\ UNCHANGED panelRequests
    /\ UNCHANGED <<calcVars, homeVars>>

LoadNext == SettleTxns \/ SettleProps \/ fetchData \/ SettlePanelQuery \/ fetchAll

LoadSpec == HomeInit /\ [][LoadNext]_vars

\* The code that follows an await runs once the awaited promise has
\* fulfilled; nothing makes a query settle.
LoadFairSpec == LoadSpec /\ WF_vars(fetchData) /\ WF_vars(fetchAll)

\* ===================================================================
\* The selection of a property while the panel loads and once it has.
\* ===================================================================
\* A click on a row of the portfolio table, which the panel renders in its
\* aggregate view: onSelectId?.(p.property_id)
AggregateRowClick ==
    /\ ~loading
    /\ PanelView(PanelProps).view = "aggregate"
    /\ \E i \in 1..Len(properties) : selectedPropertyId' = properties[i].property_id
    /\ UNCHANGED <<data, allProperties, loading, sortConfig, filters, startDate,
                   endDate, txnsRequest, propsRequest>>
    /\ WithinActive
    /\ UNCHANGED <<calcVars, panelVars>>

SelectNext ==
    \/ SettleTxns \/ SettleProps \/ fetchData \/ SettlePanelQuery \/ fetchAll
    \/ SelectProperty \/ ClearAll \/ AggregateRowClick

SelectSpec == HomeInit /\ [][SelectNext]_vars

\* ===================================================================
\* Vocabulary of the properties, stated over the known points, the target
\* and the reported result, without the operators of the calculation.
\* ===================================================================
Ran == pc \in {"rendered", "refed"}

NPoints == Len(chartPoints)

ValueAt(k) == chartPoints[k].value

TimeAt(k) == chartPoints[k].date * QPerDay

\* The pair (k, k + 1), counted from 1, straddles the target.
StraddleAt(k) ==
    /\ k \in 1..(NPoints - 1)
    /\ ValueAt(k) < breakevenTarget
    /\ breakevenTarget <= ValueAt(k + 1)

FirstStraddleAt(k) == StraddleAt(k) /\ \A j \in 1..(k - 1) : ~StraddleAt(j)

NoStraddle == \A k \in 1..(NPoints - 1) : ~StraddleAt(k)

NoBreakeven == breakevenXIndex = Null /\ breakevenDate = Null /\ projectedPoints = <<>>

\* The reported index is the number n / d (d > 0).
IndexIs(n, d) ==
    /\ breakevenXIndex # Null
    /\ LET x == breakevenXIndex[1]
       IN  (x.i * x.den + x.num) * d = n * x.den

\* The reported date is the calendar day of the instant n / d (d > 0).
DateIsDayOf(n, d) ==
    /\ breakevenDate # Null
    /\ breakevenDate[1] * QPerDay * d <= n
    /\ n < (breakevenDate[1] + 1) * QPerDay * d

\* The result is the interpolation within the pair (k, k + 1), counted from
\* 1: index (k - 1) + f and date d_k + f * (d_(k+1) - d_k), where
\* f = (Target - v_k) / (v_(k+1) - v_k).
InterpolatedAt(k) ==
    LET dv == ValueAt(k + 1) - ValueAt(k)
        up == breakevenTarget - ValueAt(k)
    IN  /\ IndexIs((k - 1) * dv + up, dv)
        /\ DateIsDayOf(TimeAt(k) * dv + up * (TimeAt(k + 1) - TimeAt(k)), dv)

\* C1 as stated: for any known point sequence whose first straddling pair in
\* scan order is (i, i+1), the result is the interpolation within that pair.
C1_Interpolated_AnySequence ==
    Ran => \A k \in 1..(NPoints - 1) : FirstStraddleAt(k) => InterpolatedAt(k)

\* C1 (amended): for any known point sequence whose first value is below
\* Target and whose first straddling pair in scan order is (i, i+1), the
\* reported index is i + (Target - v_i)/(v_(i+1) - v_i) and the reported date
\* is the calendar day of d_i + fraction * (d_(i+1) - d_i).
C1_Interpolated ==
    Ran => (NPoints >= 1 /\ ValueAt(1) < breakevenTarget
              => \A k \in 1..(NPoints - 1) : FirstStraddleAt(k) => InterpolatedAt(k))

\* Two points at different dates, 101 and 116, with Target 113: fraction 0.8.
C1_Witness ==
    /\ Ran
    /\ NPoints = 2
    /\ FirstStraddleAt(1)
    /\ chartPoints[1].date < chartPoints[2].date
    /\ IndexIs(4, 5)
    /\ breakevenDate # Null
    /\ breakevenDate[1] > chartPoints[1].date

\* ------------------------------------------------------------------- C2
FirstTime == TimeAt(1)

LastTime == TimeAt(NPoints)

FirstValue == ValueAt(1)

LastValue == ValueAt(NPoints)

\* duration = (Target - lastValue) / rate, rate = (lastValue - firstValue) /
\* (lastTime - firstTime), as the fraction DurationNum / DurationDen.
DurationNum == (breakevenTarget - LastValue) * (LastTime - FirstTime)

DurationDen == LastValue - FirstValue

\* 0 < duration < 25 years of 365.25 days (for DurationDen > 0)
DurationAccepted ==
    /\ DurationNum > 0
    /\ DurationNum < 25 * 1461 * DurationDen

\* The premises of the extrapolation.
TrendAvailable ==
    /\ NPoints >= 2
    /\ NoStraddle
    /\ LastTime > FirstTime
    /\ LastValue > FirstValue

\* C2: when no adjacent pair straddles Target, there are at least two points,
\* lastTime > firstTime and lastValue > firstValue, a breakeven date is
\* reported if and only if 0 < duration < 25 years, and it is then the
\* calendar day of lastTime + duration.
C2_Extrapolated ==
    Ran /\ TrendAvailable
        => /\ DurationAccepted <=> breakevenDate # Null
           /\ DurationAccepted => DateIsDayOf(LastTime * DurationDen + DurationNum, DurationDen)

\* An accepted extrapolation whose date lies after the last known point.
C2_Witness ==
    /\ Ran
    /\ TrendAvailable
    /\ DurationAccepted
    /\ breakevenDate # Null
    /\ breakevenDate[1] > chartPoints[NPoints].date

\* A duration of exactly 25 years and one above it, both without breakeven.
C2_WitnessRejected ==
    /\ Ran
    /\ TrendAvailable
    /\ DurationNum >= 25 * 1461 * DurationDen
    /\ breakevenDate = Null

\* ------------------------------------------------------------------- C3
\* C3: whenever the first known point's value is greater than or equal to
\* Target, the breakeven index is 0 and the breakeven date is the first
\* point's date.
C3_AlreadyAchieved ==
    Ran /\ NPoints >= 1 /\ FirstValue >= breakevenTarget
        => IndexIs(0, 1) /\ breakevenDate = Some(chartPoints[1].date)

\* ------------------------------------------------------------------- C4
SeveralStraddles == \E j, k \in 1..(NPoints - 1) : j < k /\ StraddleAt(j) /\ StraddleAt(k)

\* The index lies within the pair (k, k + 1), counted from 1.
IndexWithin(k) ==
    /\ breakevenXIndex # Null
    /\ LET x == breakevenXIndex[1]
       IN  /\ (k - 1) * x.den <= x.i * x.den + x.num
           /\ x.i * x.den + x.num <= k * x.den

\* C4 as stated: whenever several adjacent pairs straddle Target, the
\* reported index and date come from the earliest of them.
C4_TieBreak_AnySequence ==
    Ran /\ SeveralStraddles
        => \E k \in 1..(NPoints - 1) :
              FirstStraddleAt(k) /\ IndexWithin(k) /\ InterpolatedAt(k)

\* C4 (amended): whenever the first value is below Target and several
\* adjacent pairs straddle Target, the reported index and date come from the
\* earliest such pair in scan order, and from no later pair.
C4_TieBreak ==
    Ran /\ SeveralStraddles /\ FirstValue < breakevenTarget
        => \E k \in 1..(NPoints - 1) :
              /\ FirstStraddleAt(k) /\ IndexWithin(k) /\ InterpolatedAt(k)
              /\ \A j \in (k + 1)..(NPoints - 1) :
                    StraddleAt(j) /\ ValueAt(j + 1) # breakevenTarget => ~IndexWithin(j)

\* Rises above Target, falls below it and rises again.
C4_Witness ==
    /\ Ran
    /\ FirstValue < breakevenTarget
    /\ StraddleAt(1)
    /\ StraddleAt(3)
    /\ IndexWithin(1)
    /\ ~IndexWithin(3)

\* ------------------------------------------------------------------- C5
\* C5: no division is evaluated with a zero divisor, no invalid Date is
\* formatted, and a sequence of fewer than two points yields no breakeven
\* index and no breakeven date.
C5_NoArithmeticFault ==
    /\ ~divByZero
    /\ ~rangeError
    /\ Ran /\ NPoints < 2 => NoBreakeven

\* First and last point on the same day with a rising value and no
\* straddling pair: the rate's divisor would be zero.
C5_Witness ==
    /\ Ran
    /\ NPoints >= 2
    /\ FirstValue < breakevenTarget
    /\ NoStraddle
    /\ LastTime = FirstTime
    /\ LastValue > FirstValue
    /\ NoBreakeven

\* ------------------------------------------------------------------- C6
\* C6: when the last value is not greater than the first and no adjacent
\* pair straddles Target, there is no breakeven index, no breakeven date and
\* no projected point.
C6_FlatOrDecreasing ==
    Ran /\ NPoints >= 1 /\ LastValue <= FirstValue /\ NoStraddle => NoBreakeven

\* Two points, the second lower and later than the first, Target above both.
C6_Witness ==
    /\ Ran
    /\ NPoints = 2
    /\ LastTime > FirstTime
    /\ LastValue < FirstValue
    /\ breakevenTarget > FirstValue
    /\ NoBreakeven

\* ------------------------------------------------------------------- C7
\* C7: a sequence of exactly one point and a Target above its value yield
\* no breakeven index, no breakeven date and no projected point.
C7_SinglePoint ==
    Ran /\ NPoints = 1 /\ breakevenTarget > FirstValue => NoBreakeven

C7_Witness ==
    /\ Ran
    /\ NPoints = 1
    /\ breakevenTarget > FirstValue
    /\ NoBreakeven

\* ------------------------------------------------------------------- C8
\* C8: the run on the known points followed by the 'beyond' point of an
\* extrapolating run reports the breakeven date of that run.
C8_RoundTrip == pc = "refed" => breakevenDate = firstRunDate

\* ------------------------------------------------------------------- C9
\* The estimator extrapolates: the premises of C2 with an accepted duration.
Extrapolates == TrendAvailable /\ DurationAccepted

\* day is the calendar day of the instant n / d (d > 0).
IsDayOf(day, n, d) == day * QPerDay * d <= n /\ n < (day + 1) * QPerDay * d

\* The two projected points, up to the value of the second: the projected
\* breakeven (breakeven date, Target) and a point dated on the day 2 years of
\* 365.25 days after the projected breakeven instant.
ProjectedShape ==
    /\ Len(projectedPoints) = 2
    /\ breakevenDate # Null
    /\ projectedPoints[1].date = breakevenDate[1]
    /\ projectedPoints[1].value = breakevenTarget
    /\ IsDayOf(projectedPoints[2].date,
               LastTime * DurationDen + DurationNum + 2 * 1461 * DurationDen,
               DurationDen)

\* Target + rate * 2 years, as the fraction BeyondNum / (LastTime - FirstTime).
BeyondNum == breakevenTarget * (LastTime - FirstTime) + DurationDen * 2 * 1461

C10_ExtrapolatedIsProjected ==
    Ran /\ Extrapolates => cardLabel = Some("Projected")

\* ===================================================================
\* Vocabulary of the dashboard properties, stated over the stored rows, the
\* controls and what the last render shows, without the operators of the
\* render.
\* ===================================================================
\* The views a render of the loaded page may show; none while loading.
Views == {v[1] : v \in HomeRender \ {Null}}

\* The rows of a sequence, as a set.
RowsOf(rows) == {rows[i] : i \in 1..Len(rows)}

\* A cell of the amount column that holds a number.
NumericCell(cell) == cell \in {"500", "-120", "-30"}

AmountOf(row) ==
    CASE row["Item amount inc VAT"] = "500" -> 500
      [] row["Item amount inc VAT"] = "-120" -> -120
      [] row["Item amount inc VAT"] = "-30" -> -30
      [] OTHER -> 0

AllNumeric(rows) == \A r \in RowsOf(rows) : NumericCell(r["Item amount inc VAT"])

\* The sum of the amounts of a set of rows, an amount that is no number
\* counting as zero.
RECURSIVE SumOfRows(_)
SumOfRows(S) ==
    IF S = {} THEN 0
    ELSE LET r == CHOOSE x \in S : TRUE IN AmountOf(r) + SumOfRows(S \ {r})

TypesOf(rows) == {r["Item type"] : r \in RowsOf(rows)}

\* C11: whenever rows are stored, whatever the controls are set to, the
\* income total plus the expense total equals the net, and the net equals
\* the footer of the breakdown, the sum of the per-category totals.
C11_TotalsAgree ==
    \A v \in Views :
        data # <<>> =>
            /\ Plus(v.totalIncome, v.totalExpenses) = v.net
            /\ v.net = v.breakdownTotal

\* The same, for rows whose amounts all are numbers.
C11_TotalsAgree_NumericAmounts ==
    \A v \in Views :
        (data # <<>> /\ AllNumeric(data)) =>
            /\ v.net = <<SumOfRows(RowsOf(v.filteredData))>>
            /\ v.net = v.breakdownTotal

\* C12: no total that is displayed is NaN: the income total, the expense
\* total, the net, every breakdown total, the breakdown footer and the
\* filtered total of the ledger are numbers, a row whose amount is absent or
\* no number counting as zero.
C12_NoNaN ==
    \A v \in Views :
        /\ v.totalIncome # NaN
        /\ v.totalExpenses # NaN
        /\ v.net # NaN
        /\ \A i \in 1..Len(v.breakdownRows) : v.breakdownRows[i].total # NaN
        /\ v.breakdownTotal # NaN
        /\ v.filteredTotal # NaN

\* The same, for rows whose amounts all are numbers.
C12_NoNaN_NumericAmounts ==
    \A v \in Views :
        AllNumeric(data) =>
            /\ v.totalIncome # NaN /\ v.totalExpenses # NaN /\ v.net # NaN
            /\ v.filteredTotal = <<SumOfRows(RowsOf(v.filteredData))>>

\* The selected property, when the page has a row for the selected id.
SelectedProperties ==
    {allProperties[i] : i \in {j \in 1..Len(allProperties) :
                                 allProperties[j].property_id = selectedPropertyId}}

\* The conditions a row is filtered by.
FromStart(row) == startDate = "" \/ ~StrLess(row["Item date"], startDate)

UpToEnd(row) == endDate = "" \/ ~StrLess(endDate, row["Item date"])

InSelection(row, key) ==
    filters[key] = <<>> \/ \E i \in 1..Len(filters[key]) : filters[key][i] = row[key]

OfSelectedProperty(row) ==
    \A p \in SelectedProperties :
        includes(toLowerCase(row["Property address"]), addrKey(p.address))

\* C13 as stated: a stored row is in the filtered set exactly when its date
\* is not before the start date (when set), not after the end date (when
\* set), and its value is selected in every column with a selection.
C13_Conjunction_DatesAndColumns ==
    \A v \in Views : \A r \in RowsOf(data) :
        r \in RowsOf(v.filteredData)
            <=> /\ FromStart(r)
                /\ UpToEnd(r)
                /\ \A key \in Columns : InSelection(r, key)

\* C13: a stored row is in the filtered set exactly when it meets all of:
\* its address holds the address key of the selected property (when a
\* property is selected and known to the page), its date is not before the
\* start date (when set) and not after the end date (when set), and its
\* value is selected in every column with a non-empty selection.
C13_Conjunction ==
    \A v \in Views : \A r \in RowsOf(data) :
        r \in RowsOf(v.filteredData)
            <=> /\ OfSelectedProperty(r)
                /\ FromStart(r)
                /\ UpToEnd(r)
                /\ \A key \in Columns : InSelection(r, key)

\* Two filters at once, a row that passes both and rows that fail one each.
C13_Witness ==
    /\ SelectedProperties # {}
    /\ \E key \in Columns : filters[key] # <<>>
    /\ \E v \in Views : \E r1, r2, r3 \in RowsOf(data) :
          /\ r1 \in RowsOf(v.filteredData)
          /\ OfSelectedProperty(r2) /\ \E key \in Columns : ~InSelection(r2, key)
          /\ ~OfSelectedProperty(r3) /\ \A key \in Columns : InSelection(r3, key)

\* An active filter that no stored row meets.
UnmetFilter ==
    \/ SelectedProperties # {} /\ \A r \in RowsOf(data) : ~OfSelectedProperty(r)
    \/ startDate # "" /\ \A r \in RowsOf(data) : ~FromStart(r)
    \/ endDate # "" /\ \A r \in RowsOf(data) : ~UpToEnd(r)
    \/ \E key \in Columns :
          filters[key] # <<>> /\ \A r \in RowsOf(data) : ~InSelection(r, key)

\* C14: whatever the controls are set to, every filtered row is a stored
\* row, and no row is left when one active filter is met by no stored row.
C14_SubsetAndEmpty ==
    \A v \in Views :
        /\ RowsOf(v.filteredData) \subseteq RowsOf(data)
        /\ Len(v.filteredData) <= Len(data)
        /\ UnmetFilter => v.filteredData = <<>>

\* Rows are stored and one active filter is met by none of them.
C14_Witness == ~loading /\ data # <<>> /\ UnmetFilter

KeyLess(x, y) ==
    IF sortConfig[1].key = "Item amount inc VAT"
    THEN /\ NumericCell(x["Item amount inc VAT"])
         /\ NumericCell(y["Item amount inc VAT"])
         /\ AmountOf(x) < AmountOf(y)
    ELSE StrLess(toLowerCase(x[sortConfig[1].key]), toLowerCase(y[sortConfig[1].key]))

OutOfOrder(x, y) ==
    IF sortConfig[1].direction = "asc" THEN KeyLess(y, x) ELSE KeyLess(x, y)

C15_Idempotent_NumericAmounts ==
    \A v \in Views :
        (sortConfig # Null /\ AllNumeric(data)) =>
            \A again \in sortedData(v.sortedData, sortConfig) : again = v.sortedData

C16_Ordered_NumericAmounts ==
    \A v \in Views :
        (sortConfig # Null /\ AllNumeric(data)) =>
            \A i, j \in 1..Len(v.sortedData) :
                i < j => ~OutOfOrder(v.sortedData[i], v.sortedData[j])

\* ===================================================================
\* Vocabulary of the loading properties.
\* ===================================================================
\* A component still waits for one of its queries.
HomeWaiting == txnsRequest.state # "settled" \/ propsRequest.state # "settled"

PanelWaiting == \E q \in PanelQueries : panelRequests[q].state # "settled"

\* The rows a settled query leaves in its collection: none on an error.
RowsDelivered(request) == IF request.data = Null THEN <<>> ELSE request.data[1]

\* C17: as long as one of its parallel queries has not settled a component
\* is loading and renders nothing but its loading indicator; a loading flag
\* that has become false never becomes true again.
C17_LoadingOnce ==
    /\ [](HomeWaiting => (loading /\ HomeRender = {Null}))
    /\ [](PanelWaiting => (panelLoading /\ PanelRender = Null))
    /\ [][(loading' => loading) /\ (panelLoading' => panelLoading)]_vars

\* Both components have left the loading state.
C17_Witness == ~loading /\ ~panelLoading

\* C18: once a component has left the loading state, the collection of a
\* query that settled with an error or without rows is empty and the
\* collection of every other query holds the rows delivered; and a component
\* whose queries have all settled, failed or not, leaves the loading state.
C18_ErrorLeavesEmpty ==
    /\ [](~loading =>
            /\ data = RowsDelivered(txnsRequest)
            /\ allProperties = RowsDelivered(propsRequest))
    /\ [](~panelLoading =>
            /\ properties = RowsDelivered(panelRequests["properties_master"])
            /\ capitalTransactions = RowsDelivered(panelRequests["capital_transactions"])
            /\ scenarios = RowsDelivered(panelRequests["scenarios"])
            /\ panelValuations = RowsDelivered(panelRequests["valuations"])
            /\ opTransactions = RowsDelivered(panelRequests["transactions"]))
    /\ (~HomeWaiting) ~> (~loading)
    /\ (~PanelWaiting) ~> (~panelLoading)

\* The panel has left the loading state after a query failed and another
\* delivered rows.
C18_Witness ==
    /\ ~panelLoading
    /\ \E q \in PanelQueries : panelRequests[q].data = Null
    /\ \E q \in PanelQueries : RowsDelivered(panelRequests[q]) # <<>>
    /\ capitalTransactions # <<>> \/ properties # <<>>

\* C19: the chart points are in ascending order of date, whether they come
\* from the valuations or from the purchase and refinance transactions.
C19_AscendingDates ==
    pc = "rendered" =>
        \A i \in 1..(Len(chartPoints) - 1) :
            chartPoints[i].date <= chartPoints[i + 1].date

\* The same, for a property that has valuation rows.
C19_AscendingDates_FromValuations ==
    (pc = "rendered" /\ valuations # <<>>) =>
        \A i \in 1..(Len(chartPoints) - 1) :
            chartPoints[i].date <= chartPoints[i + 1].date

\* ===================================================================
\* The calculation as a function of its inputs.
\* ===================================================================
\* What the last render of the panel reported.
Reported ==
    [xIndex |-> breakevenXIndex, date |-> breakevenDate, projected |-> projectedPoints]

\* The calculation evaluated now, in the current state of the page and of
\* the panel, on the inputs of the last render.
EvaluatedNow ==
    LET r == Payback(chartPoints, netCashInvested(property), property.purchase_price)
    IN  [xIndex |-> r.xIndex, date |-> r.date, projected |-> r.projected]

\* A step that evaluates the calculation on the inputs of the evaluation
\* before it.
SameInputsAgain ==
    /\ pc # "loaded"
    /\ pc' = "rerendered"
    /\ chartPoints' = chartPoints
    /\ netCashInvested(property') = netCashInvested(property)
    /\ property'.purchase_price = property.purchase_price

Snapshot ==
    <<data, allProperties, properties, capitalTransactions, scenarios,
      panelValuations, opTransactions>>

\* The figures of a view: the cards, the breakdown with its footer, the
\* transaction count and the total under the ledger.
Figures(v) ==
    [totalIncome |-> v.totalIncome, totalExpenses |-> v.totalExpenses,
     net |-> v.net, breakdownRows |-> v.breakdownRows,
     breakdownTotal |-> v.breakdownTotal, count |-> Len(v.filteredData),
     filteredTotal |-> v.filteredTotal]

\* C22: once the page has loaded, no user action (a column filter, a date,
\* the sort column, the selected property, "Clear all") changes a fetched
\* collection, and the figures shown are determined by the fetched rows and
\* the state of the controls: every render the state allows, whatever order
\* the sort leaves the ledger in, shows the same figures.
C22_SnapshotKept ==
    /\ [][~loading => Snapshot' = Snapshot]_vars
    /\ [](\A v, w \in Views : Figures(v) = Figures(w))

\* The ledger is sorted and the sort may leave it in more than one order.
C22_Witness ==
    /\ ~loading
    /\ sortConfig # Null
    /\ Cardinality(Views) > 1

\* ===================================================================
\* The view the panel selects under the page.
\* ===================================================================
\* The panel is rendered by the loaded page and has left its loading state.
PanelShown == ~loading /\ ~panelLoading

\* The ids of the rows the panel loaded.
LoadedIds == {properties[i].property_id : i \in 1..Len(properties)}

\* C23: under a parent that manages the selection, the panel never shows
\* its internal picker; its effective selected id is the external id
\* whenever that is not empty; once loaded it shows the portfolio table
\* exactly when the external id is empty and it loaded a property, and it
\* renders nothing for an external id that is not empty and is the id of no
\* property it loaded.
C23_ViewSelection ==
    ~loading =>
        LET v == PanelView(PanelProps)
        IN  /\ hasParent(PanelProps)
            /\ ~v.picker
            /\ selectedPropertyId # "" =>
                   selectedId(PanelProps, internalId) = selectedPropertyId
            /\ v.view = "aggregate" <=> (selectedPropertyId = "" /\ properties # <<>>)
            /\ (PanelShown /\ selectedPropertyId # ""
                           /\ selectedPropertyId \notin LoadedIds) =>
                   v.view = "nothing"
            /\ (PanelShown /\ selectedPropertyId \in LoadedIds) =>
                   /\ v.view = "property"
                   /\ v.property[1].property_id = selectedPropertyId

\* The panel loaded a property and renders nothing, the page's selection
\* being a property it did not load.
C23_Witness ==
    /\ PanelShown
    /\ properties # <<>>
    /\ selectedPropertyId # ""
    /\ selectedPropertyId \notin LoadedIds
    /\ PanelView(PanelProps).view = "nothing"

\* The panel shows the property the page selected, which is not the first
\* one it loaded.
C23_WitnessProperty ==
    /\ PanelShown
    /\ selectedPropertyId \in LoadedIds
    /\ selectedPropertyId # internalId
    /\ PanelView(PanelProps).view = "property"

\* ===================================================================
\* The page's selection and the panel's load.
\* ===================================================================
\* The step in which fetchAll completes.
PanelLoadCompletes == panelLoading /\ ~panelLoading'

\* The parent's selection changes by one of the three controls only.
SelectionChangesByControl ==
    selectedPropertyId' # selectedPropertyId =>
        (SelectProperty \/ ClearAll \/ AggregateRowClick)

\* C28 as stated: under every interleaving of selection changes with the
\* panel's load, the completion of the load leaves the parent's selection
\* as it is, the selection changes only by the property dropdown, "Clear
\* all" or a row click in the portfolio table, and a selection made while
\* the panel was loading is the property the loaded panel shows.
C28_SelectionSurvivesLoad_Shown ==
    /\ [][PanelLoadCompletes => selectedPropertyId' = selectedPropertyId]_vars
    /\ [][SelectionChangesByControl]_vars
    /\ [][(PanelLoadCompletes /\ selectedPropertyId # "") =>
             /\ PanelView(PanelProps)'.view = "property"
             /\ PanelView(PanelProps)'.property[1].property_id = selectedPropertyId]_vars

\* C28: the same, where the selection made while the panel was loading is
\* the loaded panel's effective selected id: the panel shows that property
\* when its own load delivered it, and renders nothing otherwise; it never
\* shows the portfolio table or another property instead.
C28_SelectionSurvivesLoad ==
    /\ [][PanelLoadCompletes => selectedPropertyId' = selectedPropertyId]_vars
    /\ [][SelectionChangesByControl]_vars
    /\ [][(PanelLoadCompletes /\ selectedPropertyId # "") =>
             /\ selectedId(PanelProps, internalId)' = selectedPropertyId
             /\ IF selectedPropertyId \in LoadedIds'
                THEN /\ PanelView(PanelProps)'.view = "property"
                     /\ PanelView(PanelProps)'.property[1].property_id
                            = selectedPropertyId
                ELSE PanelView(PanelProps)'.view = "nothing"]_vars

\* The loaded panel shows the page's selection although its own load made
\* another property its internal id.
C28_Witness ==
    /\ PanelShown
    /\ internalId # ""
    /\ selectedPropertyId # ""
    /\ selectedPropertyId # internalId
    /\ PanelView(PanelProps).view = "property"
    /\ PanelView(PanelProps).property[1].property_id = selectedPropertyId

\* ===================================================================
\* What the filters reach.
\* ===================================================================
\* The stored rows that meet every filter, in the order they are stored.
FilteredRows ==
    SelectSeq(data, LAMBDA r : /\ OfSelectedProperty(r)
                               /\ FromStart(r)
                               /\ UpToEnd(r)
                               /\ \A key \in Columns : InSelection(r, key))

\* The income rows among them ('Rent Paid'), and the others.
IncomeRows == SelectSeq(FilteredRows, LAMBDA r : r["Item type"] = "Rent Paid")

ExpenseRows == SelectSeq(FilteredRows, LAMBDA r : r["Item type"] # "Rent Paid")

\* How often x occurs in s.
Occurrences(s, x) == Cardinality({i \in 1..Len(s) : s[i] = x})

IsPermutation(s, t) ==
    /\ Len(s) = Len(t)
    /\ \A x \in RowsOf(s) \cup RowsOf(t) : Occurrences(s, x) = Occurrences(t, x)

\* C24: the income, expense and net cards, the breakdown rows and the
\* transaction count are those of the rows that meet the property, date
\* and column filters, and the ledger holds exactly those rows, each once,
\* in some order, whatever the sort configuration is.
C24_SameFilteredSet ==
    \A v \in Views :
        /\ v.totalIncome = sumAmounts(IncomeRows)
        /\ v.totalExpenses = sumAmounts(ExpenseRows)
        /\ v.net = Plus(sumAmounts(IncomeRows), sumAmounts(ExpenseRows))
        /\ v.breakdownRows = breakdownRows(FilteredRows)
        /\ Len(v.filteredData) = Len(FilteredRows)
        /\ IsPermutation(v.sortedData, FilteredRows)

\* A filter leaves some of the stored rows, income among them, and the sort
\* shows them in another order than they are stored in.
C24_Witness ==
    /\ sortConfig # Null
    /\ Len(FilteredRows) < Len(data)
    /\ \E i \in 1..Len(FilteredRows) : FilteredRows[i]["Item type"] = "Rent Paid"
    /\ \E v \in Views : v.sortedData # FilteredRows

\* ===================================================================
\* The sort configuration under header clicks.
\* ===================================================================
\* A header click: the one step that changes the sort configuration.
SortChanges == sortConfig' # sortConfig

Flipped(direction) == IF direction = "asc" THEN "desc" ELSE "asc"

\* C25: the sort configuration starts as 'no sort'; a header click makes
\* the clicked column the sort column, flipping the direction between
\* ascending and descending when that column was the sort column already
\* and setting ascending when it was not; once set, the configuration
\* never returns to 'no sort', whatever else is clicked.
C25_SortToggle ==
    /\ sortConfig = Null
    /\ [][toggleSort => SortChanges]_vars
    /\ [][SortChanges =>
             /\ toggleSort
             /\ sortConfig' # Null
             /\ sortConfig'[1].key \in Columns
             /\ IF sortConfig # Null /\ sortConfig[1].key = sortConfig'[1].key
                THEN sortConfig'[1].direction = Flipped(sortConfig[1].direction)
                ELSE sortConfig'[1].direction = "asc"]_vars
    /\ [][sortConfig # Null => sortConfig' # Null]_vars

\* A column clicked twice sorts descending, while a property is selected.
C25_Witness ==
    /\ sortConfig # Null
    /\ sortConfig[1].direction = "desc"
    /\ selectedPropertyId # ""

\* ===================================================================
\* The column filters under toggles.
\* ===================================================================
\* The values selected in a column, and the options the column offers: the
\* texts of its cells in the stored rows, filtered or not.
Selection(key) == {filters[key][i] : i \in 1..Len(filters[key])}

Options(key) == {data[i][key] : i \in 1..Len(data)}

Listed(key) == {getUnique(key)[n] : n \in 1..Len(getUnique(key))}

DuplicateFree(s) == \A i, j \in 1..Len(s) : s[i] = s[j] => i = j

\* The values of a selection after an option is toggled, and toggled twice.
AfterToggle(key, val) ==
    LET s == toggledValues(filters[key], val)
    IN  {s[i] : i \in 1..Len(s)}

AfterTwoToggles(key, val) ==
    LET s == toggledValues(toggledValues(filters[key], val), val)
    IN  {s[i] : i \in 1..Len(s)}

\* C26: a toggle changes the selection of one column only, by one of its
\* options, which it adds when absent and removes when present; toggling
\* an option twice gives the selected values there were before; and every
\* column's selection has no duplicate and holds only options of the
\* column, which are the values of the stored, unfiltered rows.
C26_FilterToggle ==
    /\ [][filters' # filters =>
             \E key \in Columns : \E val \in Options(key) :
                /\ \A k \in Columns \ {key} : filters'[k] = filters[k]
                /\ Selection(key)' =
                       IF val \in Selection(key) THEN Selection(key) \ {val}
                       ELSE Selection(key) \cup {val}]_vars
    /\ [](\A key \in Columns : \A val \in Listed(key) :
             /\ AfterToggle(key, val) =
                    IF val \in Selection(key) THEN Selection(key) \ {val}
                    ELSE Selection(key) \cup {val}
             /\ AfterTwoToggles(key, val) = Selection(key))
    /\ [](\A key \in Columns :
             /\ DuplicateFree(filters[key])
             /\ Selection(key) \subseteq Listed(key)
             /\ Listed(key) = Options(key))

\* Two options of one column have been toggled on.
C26_Witness ==
    \E key \in Columns : Len(filters[key]) = 2

\* ===================================================================
\* "Clear all".
\* ===================================================================
\* C27: "Clear all" empties the selected property, the start date and the
\* end date and leaves the column filters and the sort configuration as
\* they are; the loaded page offers it exactly when the selected property,
\* the start date or the end date is not empty, so not for column filters
\* alone.
C27_ClearAll ==
    /\ [][ClearAll =>
             /\ selectedPropertyId' = "" /\ startDate' = "" /\ endDate' = ""
             /\ filters' = filters
             /\ sortConfig' = sortConfig]_vars
    /\ [](~loading =>
             (ENABLED ClearAll
                 <=> (selectedPropertyId # "" \/ startDate # "" \/ endDate # "")))

\* A column filter and a sort are set, no property and no date is, and
\* "Clear all" is not offered.
C27_Witness ==
    /\ ~loading
    /\ filters # noFilters
    /\ sortConfig # Null
    /\ selectedPropertyId = "" /\ startDate = "" /\ endDate = ""
    /\ ~ENABLED ClearAll

\* ===================================================================
\* The estimator without cash to recover, and the marker's position.
\* ===================================================================
\* C29: whenever netCashInvested is zero or negative, the estimator reports
\* no breakeven index, no breakeven date and no projected point, whatever
\* the known points are.
C29_NothingToRecover ==
    (Ran /\ netCashInvested(property) <= 0) => NoBreakeven

\* More equity released than cash invested, and known points that rise
\* from the first to the last.
C29_Witness ==
    /\ Ran
    /\ netCashInvested(property) < 0
    /\ NPoints >= 2
    /\ LastTime > FirstTime
    /\ LastValue > FirstValue
    /\ NoBreakeven

\* The known points followed by the projected points: allChartPoints.
allChartPoints == chartPoints \o projectedPoints

\* Math.floor(breakevenXIndex)
FloorOfIndex == breakevenXIndex[1].i + (breakevenXIndex[1].num \div breakevenXIndex[1].den)

\* C30: in every outcome of the calculation the breakeven index is non-null
\* exactly when the breakeven date is, and the integer part of a non-null
\* index is a position of the list of known and projected points:
\* 0 <= floor(index) <= length - 1.
C30_IndexWithinPoints ==
    (Ran /\ ~rangeError) =>
        /\ breakevenXIndex # Null <=> breakevenDate # Null
        /\ breakevenXIndex # Null =>
               /\ 0 <= FloorOfIndex
               /\ FloorOfIndex <= Len(allChartPoints) - 1

\* An interpolation that ends on the last known point, with no projected
\* point after it.
C30_Witness ==
    /\ Ran
    /\ breakevenXIndex # Null
    /\ projectedPoints = <<>>
    /\ FloorOfIndex = NPoints - 1

\* An extrapolation: the index is the position of the first projected point.
C30_WitnessProjected ==
    /\ Ran
    /\ breakevenXIndex # Null
    /\ Len(projectedPoints) = 2
    /\ FloorOfIndex = NPoints

====
